---------------------------- MODULE Spec2Model ----------------------------
(***************************************************************************)
(* The vc4 instruction encoder of V3DLib (Lib/vc4/Instr.cpp): the          *)
(* register/bank resolvers encodeDestReg and encodeSrcReg, the operand     *)
(* bank-conflict resolver Instr::encode_operands, the class setter         *)
(* Instr::tag and the dispatcher Instr::encode.                            *)
(*                                                                         *)
(* A failed assert(), assertq() or fatal() is a contract violation: the    *)
(* operation stops there and the record keeps what was written before.     *)
(***************************************************************************)
EXTENDS Integers, FiniteSets

VARIABLES
  instr,   \* the machine-independent instruction handed to Instr::encode
  rec,     \* the vc4::Instr object: the physical fields of one instruction
  pc,      \* "fresh" (constructed), "done" (encode returned), "failed" (contract violation)
  call,    \* the resolver call made last: function, register, bank
  ret      \* what that call returned

vars == <<instr, rec, pc, call, ret>>

(***************************************************************************)
(* Bounds of the model.                                                    *)
(***************************************************************************)
MaxRegId == 5      \* regfile indices 0..MaxRegId, besides the edges 31 and 32
MaxImm == 2        \* small-immediate codes 0..MaxImm, besides the edges 15 and 16
MaxCond == 2       \* encoded condition codes 1..MaxCond
MaxOffset == 2     \* branch offsets 0..MaxOffset
MaxSema == 1       \* semaphore ids 0..MaxSema

(***************************************************************************)
(* Constants of the program.                                               *)
(***************************************************************************)
NumRegs == 32            \* regfile A and B hold registers 0..31
NumAccDest == 5          \* highest accumulator that can be written
NumAccSrc == 4           \* highest accumulator that can be read
AccBase == 32            \* write address of accumulator 0
NopAddr == 39            \* the NOP address of the regfiles
MuxA == 6                \* input mux: regfile A
MuxB == 7                \* input mux: regfile B
MuxImm == 7              \* input mux: the small immediate
NO_REGFILE_INDEX == 0    \* read address of a register with no regfile mapping
RotBase == 48            \* read address B of a rotate by accumulator 5

(***************************************************************************)
(* enum Special: the ids of the special registers.                         *)
(***************************************************************************)
SPECIAL_UNIFORM == 0
SPECIAL_ELEM_NUM == 1
SPECIAL_QPU_NUM == 2
SPECIAL_VPM_READ == 3
SPECIAL_DMA_ST_WAIT == 4
SPECIAL_DMA_LD_WAIT == 5
SPECIAL_RD_SETUP == 6
SPECIAL_WR_SETUP == 7
SPECIAL_DMA_ST_ADDR == 8
SPECIAL_DMA_LD_ADDR == 9
SPECIAL_VPM_WRITE == 10
SPECIAL_HOST_INT == 11
SPECIAL_TMU0_S == 12
SPECIAL_SFU_RECIP == 13
SPECIAL_SFU_RECIPSQRT == 14
SPECIAL_SFU_EXP == 15
SPECIAL_SFU_LOG == 16

SpecialIds == SPECIAL_UNIFORM..SPECIAL_SFU_LOG

\* The special registers that have a row in encodeDestReg's table.
DestSpecials ==
  { SPECIAL_RD_SETUP, SPECIAL_WR_SETUP, SPECIAL_DMA_LD_ADDR, SPECIAL_DMA_ST_ADDR,
    SPECIAL_VPM_WRITE, SPECIAL_HOST_INT, SPECIAL_TMU0_S, SPECIAL_SFU_RECIP,
    SPECIAL_SFU_RECIPSQRT, SPECIAL_SFU_EXP, SPECIAL_SFU_LOG }

(***************************************************************************)
(* Reg, RegOrImm.                                                          *)
(***************************************************************************)
MkReg(t, i) == [tag |-> t, regId |-> i]

NoReg == MkReg("NONE", 0)

OpReg(r) == [isReg |-> TRUE, reg |-> r, val |-> 0]

OpImm(k) == [isReg |-> FALSE, reg |-> NoReg, val |-> k]

\* Reg::regfile(): the regfile a register lives in, NONE when it has none.
regfile(reg) ==
  IF reg.tag = "REG_A" THEN "REG_A"
  ELSE IF reg.tag = "REG_B" THEN "REG_B"
  ELSE IF reg.tag = "SPECIAL"
            /\ reg.regId \in { SPECIAL_ELEM_NUM, SPECIAL_RD_SETUP,
                               SPECIAL_DMA_LD_WAIT, SPECIAL_DMA_LD_ADDR }
    THEN "REG_A"
  ELSE IF reg.tag = "SPECIAL"
            /\ reg.regId \in { SPECIAL_QPU_NUM, SPECIAL_WR_SETUP,
                               SPECIAL_DMA_ST_WAIT, SPECIAL_DMA_ST_ADDR }
    THEN "REG_B"
  ELSE "NONE"

(***************************************************************************)
(* encodeDestReg: the write address and the regfile of a register.         *)
(***************************************************************************)
ResFail == [ok |-> FALSE, addr |-> 0, file |-> "NONE", mux |-> 0]

DestOk(a, f) == [ok |-> TRUE, addr |-> a, file |-> f, mux |-> 0]

SrcOk(a, m) == [ok |-> TRUE, addr |-> a, file |-> "NONE", mux |-> m]

\* The regfile used where A and B both do: A, unless the register names one.
DestAorB(reg) == IF reg.tag \in {"REG_A", "REG_B"} THEN reg.tag ELSE "REG_A"

\* case NONE, and what an unmatched special register falls through to.
encodeDestNone(reg) == DestOk(NopAddr, DestAorB(reg))

AccDestFile_ignoreAcc5(reg) == DestAorB(reg)

\* The regfile of an accumulator written: accumulator 5 is written through B.
AccDestFile(reg) == IF reg.regId = NumAccDest THEN "REG_B" ELSE DestAorB(reg)

encodeDestAcc(reg) ==
  IF ~(reg.regId >= 0 /\ reg.regId <= NumAccDest) THEN ResFail
  ELSE DestOk(AccBase + reg.regId, AccDestFile(reg))

\* The inner switch over the special registers; "default: break" leaves the
\* inner switch only, and control falls into case NONE.
encodeDestSpecial(reg) ==
  CASE reg.regId = SPECIAL_RD_SETUP      -> DestOk(49, "REG_A")
    [] reg.regId = SPECIAL_WR_SETUP      -> DestOk(49, "REG_B")
    [] reg.regId = SPECIAL_DMA_LD_ADDR   -> DestOk(50, "REG_A")
    [] reg.regId = SPECIAL_DMA_ST_ADDR   -> DestOk(50, "REG_B")
    [] reg.regId = SPECIAL_VPM_WRITE     -> DestOk(48, DestAorB(reg))
    [] reg.regId = SPECIAL_HOST_INT      -> DestOk(38, DestAorB(reg))
    [] reg.regId = SPECIAL_TMU0_S        -> DestOk(56, DestAorB(reg))
    [] reg.regId = SPECIAL_SFU_RECIP     -> DestOk(52, DestAorB(reg))
    [] reg.regId = SPECIAL_SFU_RECIPSQRT -> DestOk(53, DestAorB(reg))
    [] reg.regId = SPECIAL_SFU_EXP       -> DestOk(54, DestAorB(reg))
    [] reg.regId = SPECIAL_SFU_LOG       -> DestOk(55, DestAorB(reg))
    [] OTHER                             -> encodeDestNone(reg)

encodeDestReg(reg) ==
  CASE reg.tag = "REG_A" ->
         IF reg.regId >= 0 /\ reg.regId < NumRegs THEN DestOk(reg.regId, "REG_A") ELSE ResFail
    [] reg.tag = "REG_B" ->
         IF reg.regId >= 0 /\ reg.regId < NumRegs THEN DestOk(reg.regId, "REG_B") ELSE ResFail
    [] reg.tag = "ACC"     -> encodeDestAcc(reg)
    [] reg.tag = "SPECIAL" -> encodeDestSpecial(reg)
    [] reg.tag = "NONE"    -> encodeDestNone(reg)
    [] OTHER               -> ResFail

(***************************************************************************)
(* encodeSrcReg: the read address and the input mux of a register read     *)
(* through regfile `file`.                                                 *)
(***************************************************************************)
SrcAorB(file) == IF file = "REG_A" THEN MuxA ELSE MuxB

encodeSrcAcc_destAddr(reg) ==
  IF ~(reg.regId >= 0 /\ reg.regId <= NumAccSrc) THEN ResFail
  ELSE SrcOk(NO_REGFILE_INDEX, AccBase + reg.regId)

\* An accumulator is read through the mux, not through a regfile.
encodeSrcAcc(reg) ==
  IF ~(reg.regId >= 0 /\ reg.regId <= NumAccSrc) THEN ResFail
  ELSE SrcOk(NO_REGFILE_INDEX, reg.regId)

\* The inner switch has no default: an unmatched special register falls
\* into the outer default, which is fatal.
encodeSrcSpecial(reg, file) ==
  CASE reg.regId = SPECIAL_UNIFORM     -> SrcOk(32, SrcAorB(file))
    [] reg.regId = SPECIAL_ELEM_NUM    -> IF file = "REG_A" THEN SrcOk(38, MuxA) ELSE ResFail
    [] reg.regId = SPECIAL_QPU_NUM     -> IF file = "REG_B" THEN SrcOk(38, MuxB) ELSE ResFail
    [] reg.regId = SPECIAL_VPM_READ    -> SrcOk(48, SrcAorB(file))
    [] reg.regId = SPECIAL_DMA_LD_WAIT -> IF file = "REG_A" THEN SrcOk(50, MuxA) ELSE ResFail
    [] reg.regId = SPECIAL_DMA_ST_WAIT -> IF file = "REG_B" THEN SrcOk(50, MuxB) ELSE ResFail
    [] OTHER                           -> ResFail

encodeSrcReg(reg, file) ==
  IF ~(file = "REG_A" \/ file = "REG_B") THEN ResFail
  ELSE
    CASE reg.tag = "REG_A" ->
           IF reg.regId >= 0 /\ reg.regId < NumRegs /\ file = "REG_A"
             THEN SrcOk(reg.regId, MuxA) ELSE ResFail
      [] reg.tag = "REG_B" ->
           IF reg.regId >= 0 /\ reg.regId < NumRegs /\ file = "REG_B"
             THEN SrcOk(reg.regId, MuxB) ELSE ResFail
      [] reg.tag = "ACC"     -> encodeSrcAcc(reg)
      [] reg.tag = "NONE"    -> SrcOk(NopAddr, SrcAorB(file))
      [] reg.tag = "SPECIAL" -> encodeSrcSpecial(reg, file)
      [] OTHER               -> ResFail

(***************************************************************************)
(* The vc4::Instr object.                                                  *)
(***************************************************************************)
\* The object as constructed: a NOP.
Fresh ==
  [ m_tag |-> "NOP", m_sig |-> 14, m_sem_flag |-> 0,
    cond_add |-> 0, cond_mul |-> 0, waddr_add |-> NopAddr, waddr_mul |-> NopAddr,
    m_raddra |-> NopAddr, m_raddrb |-> 0, m_muxa |-> 0, m_muxb |-> 0,
    m_ws |-> FALSE, m_sf |-> FALSE, m_rel |-> FALSE,
    mulOp |-> 0, addOp |-> 0, li_imm |-> 0, sema_id |-> 0 ]

Ok(r) == [ok |-> TRUE, rec |-> r]

Fail(r) == [ok |-> FALSE, rec |-> r]

\* Instr::tag(in_tag, imm): the class, and the fields the class fixes.
tag(r, t, imm) ==
  CASE t = "ROT"   -> [r EXCEPT !.m_tag = t, !.m_sig = 13]
    [] t = "ALU"   -> [r EXCEPT !.m_tag = t, !.m_sig = IF imm THEN 13 ELSE 1]
    [] t = "BR"    -> [r EXCEPT !.m_tag = t, !.m_sig = 15]
    [] t = "END"   -> [r EXCEPT !.m_tag = t, !.m_sig = 3, !.m_raddrb = NopAddr]
    [] t = "LDTMU" -> [r EXCEPT !.m_tag = t, !.m_sig = 10, !.m_raddrb = NopAddr]
    [] t \in {"SINC", "SDEC"} -> [r EXCEPT !.m_tag = t, !.m_sig = 14, !.m_sem_flag = 8]
    [] OTHER       -> [r EXCEPT !.m_tag = t]

(***************************************************************************)
(* Instr::encode_operands: the two read ports of an ALU instruction.       *)
(***************************************************************************)
OpsFail == [ok |-> FALSE, raddra |-> 0, raddrb |-> 0, muxa |-> 0, muxb |-> 0]

OpsOk(ra, rb, ma, mb) == [ok |-> TRUE, raddra |-> ra, raddrb |-> rb, muxa |-> ma, muxb |-> mb]

sameRegOperands_bothPorts(srcA) ==
  IF regfile(srcA.reg) = "REG_A"
    THEN LET a == encodeSrcReg(srcA.reg, "REG_A")
         IN  IF a.ok THEN OpsOk(a.addr, a.addr, a.mux, a.mux) ELSE OpsFail
    ELSE LET b == encodeSrcReg(srcA.reg, "REG_B")
         IN  IF b.ok THEN OpsOk(b.addr, b.addr, b.mux, b.mux) ELSE OpsFail

\* Both operands are the same register: it is read once, the other port reads NOP.
sameRegOperands(srcA) ==
  IF regfile(srcA.reg) = "REG_A"
    THEN LET a == encodeSrcReg(srcA.reg, "REG_A")
         IN  IF a.ok THEN OpsOk(a.addr, NopAddr, a.mux, a.mux) ELSE OpsFail
    ELSE LET b == encodeSrcReg(srcA.reg, "REG_B")
         IN  IF b.ok THEN OpsOk(NopAddr, b.addr, b.mux, b.mux) ELSE OpsFail

diffRegOperands_onlyA(srcA, srcB) ==
  LET aFile == regfile(srcA.reg)
      bFile == regfile(srcB.reg)
  IN  IF ~(aFile = "NONE" \/ bFile = "NONE" \/ aFile # bFile) THEN OpsFail
      ELSE IF aFile = "REG_A"
        THEN LET a == encodeSrcReg(srcA.reg, "REG_A")
                 b == encodeSrcReg(srcB.reg, "REG_B")
             IN  IF a.ok /\ b.ok THEN OpsOk(a.addr, b.addr, a.mux, b.mux) ELSE OpsFail
        ELSE LET a == encodeSrcReg(srcB.reg, "REG_A")
                 b == encodeSrcReg(srcA.reg, "REG_B")
             IN  IF a.ok /\ b.ok THEN OpsOk(a.addr, b.addr, b.mux, a.mux) ELSE OpsFail

\* The operands are different registers: one is read through A, the other through B.
diffRegOperands(srcA, srcB) ==
  LET aFile == regfile(srcA.reg)
      bFile == regfile(srcB.reg)
  IN  IF ~(aFile = "NONE" \/ bFile = "NONE" \/ aFile # bFile) THEN OpsFail
      ELSE IF aFile = "REG_A" \/ bFile = "REG_B"
        THEN LET a == encodeSrcReg(srcA.reg, "REG_A")
                 b == encodeSrcReg(srcB.reg, "REG_B")
             IN  IF a.ok /\ b.ok THEN OpsOk(a.addr, b.addr, a.mux, b.mux) ELSE OpsFail
        ELSE LET a == encodeSrcReg(srcB.reg, "REG_A")
                 b == encodeSrcReg(srcA.reg, "REG_B")
             IN  IF a.ok /\ b.ok THEN OpsOk(a.addr, b.addr, b.mux, a.mux) ELSE OpsFail

immImmOperands_firstWins(srcA, srcB) == OpsOk(0, srcA.val, MuxImm, MuxImm)

\* Both operands are small immediates: they share the one immediate slot.
immImmOperands(srcA, srcB) ==
  IF srcA.val # srcB.val THEN OpsFail
  ELSE OpsOk(0, srcA.val, MuxImm, MuxImm)

regImmOperands_viaB(srcA, srcB) ==
  IF ~srcB.isReg
    THEN LET a == encodeSrcReg(srcA.reg, "REG_A")
         IN  IF a.ok THEN OpsOk(a.addr, srcB.val, a.mux, MuxImm) ELSE OpsFail
    ELSE LET a == encodeSrcReg(srcB.reg, "REG_B")
         IN  IF a.ok THEN OpsOk(a.addr, srcA.val, MuxImm, a.mux) ELSE OpsFail

\* One register and one small immediate: the register is read through A.
regImmOperands(srcA, srcB) ==
  IF ~srcB.isReg
    THEN LET a == encodeSrcReg(srcA.reg, "REG_A")
         IN  IF a.ok THEN OpsOk(a.addr, srcB.val, a.mux, MuxImm) ELSE OpsFail
    ELSE LET a == encodeSrcReg(srcB.reg, "REG_A")
         IN  IF a.ok THEN OpsOk(a.addr, srcA.val, MuxImm, a.mux) ELSE OpsFail

\* The four values encode_operands computes, or the contract violation.
operandFields(srcA, srcB) ==
  IF srcA.isReg /\ srcB.isReg
    THEN IF srcA.reg.tag # "NONE" /\ srcA.reg = srcB.reg
           THEN sameRegOperands(srcA)
           ELSE diffRegOperands(srcA, srcB)
  ELSE IF ~srcA.isReg /\ ~srcB.isReg
    THEN immImmOperands(srcA, srcB)
    ELSE regImmOperands(srcA, srcB)

\* The fields are written last, so a contract violation writes none of them.
encode_operands(r, srcA, srcB) ==
  LET o == operandFields(srcA, srcB)
  IN  IF ~o.ok THEN Fail(r)
      ELSE Ok([r EXCEPT !.m_raddra = o.raddra, !.m_raddrb = o.raddrb,
                        !.m_muxa = o.muxa, !.m_muxb = o.muxb])

(***************************************************************************)
(* ALUOp: the operations of the model, one per pipe, and the rotate.       *)
(***************************************************************************)
Ops == {"A_ADD", "M_MUL24", "M_ROTATE"}

isMul(op) == op \in {"M_MUL24", "M_ROTATE"}

isRot(op) == op = "M_ROTATE"

vc4_encodeAddOp(op) == IF op = "A_ADD" THEN 12 ELSE 0

vc4_encodeMulOp(op) == CASE op = "M_MUL24" -> 2 [] op = "M_V8MIN" -> 4 [] OTHER -> 0

\* Instr::hasImm(): an operand of the ALU instruction is a small immediate.
hasImm(i) == ~i.srcA.isReg \/ ~i.srcB.isReg

(***************************************************************************)
(* Instr::encode, one operator per case of its switch.                     *)
(***************************************************************************)
encodeLI(r, i) ==
  LET d == encodeDestReg(i.dest)
      r1 == [tag(r, "LI", FALSE) EXCEPT !.cond_add = i.cond]
  IN  IF ~d.ok THEN Fail(r1)
      ELSE Ok([r1 EXCEPT !.waddr_add = d.addr, !.m_ws = (d.file # "REG_A"),
                         !.li_imm = i.imm, !.m_sf = i.sf])

encodeBR(r, i) ==
  IF i.useRegOffset THEN Fail(r)
  ELSE Ok([tag(r, "BR", FALSE) EXCEPT !.cond_add = i.cond, !.m_rel = i.relative,
                                      !.li_imm = 8 * i.immOffset])

\* The destination goes to the pipe of the operation.
routeDest(r, i, d) ==
  IF isMul(i.op)
    THEN [r EXCEPT !.cond_mul = i.cond, !.waddr_mul = d.addr, !.m_ws = (d.file # "REG_B")]
    ELSE [r EXCEPT !.cond_add = i.cond, !.waddr_add = d.addr, !.m_ws = (d.file # "REG_A")]

\* assert(n >= 1 || n <= 15), as written.
rotAmountOk(n) == n >= 1 \/ n <= 15

\* The rotate: srcA is accumulator 0, srcB accumulator 5 or a small immediate.
encodeRot(r, i) ==
  IF ~(i.srcA.isReg /\ i.srcA.reg.tag = "ACC" /\ i.srcA.reg.regId = 0) THEN Fail(r)
  ELSE IF ~(~i.srcB.isReg \/ (i.srcB.reg.tag = "ACC" /\ i.srcB.reg.regId = 5)) THEN Fail(r)
  ELSE IF ~i.srcB.isReg /\ ~rotAmountOk(i.srcB.val) THEN Fail(r)
  ELSE LET raddrb == IF ~i.srcB.isReg THEN RotBase + i.srcB.val ELSE RotBase
       IN  Ok([tag(r, "ROT", FALSE) EXCEPT !.mulOp = vc4_encodeMulOp("M_V8MIN"),
                                           !.m_raddrb = raddrb])

encodeALU(r, i) ==
  LET d == encodeDestReg(i.dest)
  IN  IF ~d.ok THEN Fail(r)
      ELSE LET r1 == [routeDest(r, i, d) EXCEPT !.m_sf = i.sf]
           IN  IF isRot(i.op) THEN encodeRot(r1, i)
               ELSE encode_operands(
                      [tag(r1, "ALU", hasImm(i)) EXCEPT
                         !.mulOp = IF isMul(i.op) THEN vc4_encodeMulOp(i.op) ELSE 0,
                         !.addOp = IF isMul(i.op) THEN 0 ELSE vc4_encodeAddOp(i.op)],
                      i.srcA, i.srcB)

encodeRECV_tagFirst(r, i) ==
  IF i.dest # MkReg("ACC", 4) THEN Fail(tag(r, "LDTMU", FALSE))
  ELSE Ok(tag(r, "LDTMU", FALSE))

\* Accumulator 4 is the only destination of a receive.
encodeRECV(r, i) ==
  IF i.dest # MkReg("ACC", 4) THEN Fail(r)
  ELSE Ok(tag(r, "LDTMU", FALSE))

encodeSema(r, i) ==
  Ok([tag(r, IF i.tag = "SINC" THEN "SINC" ELSE "SDEC", FALSE) EXCEPT !.sema_id = i.semaId])

encode(r, i) ==
  CASE i.tag = "NO_OP" -> Ok(r)
    [] i.tag = "LI"    -> encodeLI(r, i)
    [] i.tag = "BR"    -> encodeBR(r, i)
    [] i.tag = "ALU"   -> encodeALU(r, i)
    [] i.tag = "END"   -> Ok(tag(r, "END", FALSE))
    [] i.tag = "RECV"  -> encodeRECV(r, i)
    [] i.tag \in {"SINC", "SDEC"} -> encodeSema(r, i)
    [] OTHER           -> Fail(r)

(***************************************************************************)
(* The inputs of the model.  Every integer of an instruction (a small      *)
(* immediate's code, a load immediate's value, a branch offset) is an int   *)
(* from 0 up, which the casts to uint32_t leave as it is, and no sum the    *)
(* encoder forms of them leaves the range of uint32_t.                      *)
(***************************************************************************)
BankIds == (0..MaxRegId) \cup {NumRegs - 1, NumRegs}

Regs ==
  {MkReg(t, n) : t \in {"REG_A", "REG_B"}, n \in BankIds}
    \cup {MkReg("ACC", n) : n \in 0..(NumAccDest + 1)}
    \cup {MkReg("SPECIAL", n) : n \in SpecialIds}
    \cup {NoReg}

ImmVals == (0..MaxImm) \cup {15, 16}

Operands == {OpReg(r) : r \in Regs} \cup {OpImm(k) : k \in ImmVals}

Conds == 1..MaxCond

LiVals == {0, 42}

MkInstr(t, d, o, a, b, c, f) ==
  [ tag |-> t, dest |-> d, op |-> o, srcA |-> a, srcB |-> b, cond |-> c, sf |-> f,
    imm |-> 0, useRegOffset |-> FALSE, relative |-> FALSE, immOffset |-> 0, semaId |-> 0 ]

NoInstr == MkInstr("NO_OP", NoReg, "A_ADD", OpReg(NoReg), OpReg(NoReg), 0, FALSE)

\* Destinations and operand pairs that stand for the rest where the other
\* half of the ALU instruction is enumerated in full: the destination only
\* reaches the write fields, the operands only the read fields.
FewDests == {MkReg("REG_A", 3), MkReg("ACC", 5)}

FewPairs ==
  { <<OpReg(MkReg("REG_A", 3)), OpReg(MkReg("REG_B", 5))>>,
    <<OpReg(MkReg("REG_A", 3)), OpReg(MkReg("REG_A", 3))>>,
    <<OpReg(MkReg("ACC", 0)), OpReg(MkReg("ACC", 5))>>,
    <<OpReg(MkReg("ACC", 0)), OpImm(1)>>,
    <<OpImm(2), OpImm(2)>> }

ALUInstrs ==
  {MkInstr("ALU", d, o, p[1], p[2], c, f) :
      d \in Regs, o \in Ops, p \in FewPairs, c \in Conds, f \in BOOLEAN}
    \cup {MkInstr("ALU", d, o, a, b, c, FALSE) :
            d \in FewDests, o \in Ops, a \in Operands, b \in Operands, c \in Conds}

LIInstrs ==
  {[MkInstr("LI", d, "A_ADD", OpReg(NoReg), OpReg(NoReg), c, f) EXCEPT !.imm = v] :
      d \in Regs, c \in Conds, f \in BOOLEAN, v \in LiVals}

BRInstrs ==
  {[MkInstr("BR", NoReg, "A_ADD", OpReg(NoReg), OpReg(NoReg), c, FALSE) EXCEPT
       !.useRegOffset = u, !.relative = l, !.immOffset = n] :
      c \in Conds, u \in BOOLEAN, l \in BOOLEAN, n \in 0..MaxOffset}

RECVInstrs == {MkInstr("RECV", d, "A_ADD", OpReg(NoReg), OpReg(NoReg), 0, FALSE) : d \in Regs}

SemaInstrs(t) ==
  {[MkInstr(t, NoReg, "A_ADD", OpReg(NoReg), OpReg(NoReg), 0, FALSE) EXCEPT !.semaId = n] :
      n \in 0..MaxSema}

(***************************************************************************)
(* The encoder: an object is constructed, and encodes one instruction.     *)
(***************************************************************************)
NoCall == [fn |-> "none", reg |-> NoReg, file |-> "NONE"]

Init ==
  /\ instr = NoInstr
  /\ rec = Fresh
  /\ pc = "fresh"
  /\ call = NoCall
  /\ ret = ResFail

\* encode(i) on the object: it returns, or stops at a contract violation.
Apply(i) ==
  /\ instr' = i
  /\ rec' = encode(rec, i).rec
  /\ pc' = IF encode(rec, i).ok THEN "done" ELSE "failed"
  /\ UNCHANGED <<call, ret>>

EncodeNoOp ==
  /\ pc = "fresh"
  /\ Apply(NoInstr)

EncodeLI ==
  /\ pc = "fresh"
  /\ \E i \in LIInstrs : Apply(i)

EncodeBR ==
  /\ pc = "fresh"
  /\ \E i \in BRInstrs : Apply(i)

EncodeALU ==
  /\ pc = "fresh"
  /\ \E i \in ALUInstrs : Apply(i)

EncodeEND ==
  /\ pc = "fresh"
  /\ Apply([NoInstr EXCEPT !.tag = "END"])

EncodeRECV ==
  /\ pc = "fresh"
  /\ \E i \in RECVInstrs : Apply(i)

EncodeSINC ==
  /\ pc = "fresh"
  /\ \E i \in SemaInstrs("SINC") : Apply(i)

EncodeSDEC ==
  /\ pc = "fresh"
  /\ \E i \in SemaInstrs("SDEC") : Apply(i)

\* An instruction class the switch has no case for.
EncodeOther ==
  /\ pc = "fresh"
  /\ Apply([NoInstr EXCEPT !.tag = "OTHER"])

\* The next instruction gets an object of its own.
Construct ==
  /\ pc # "fresh"
  /\ instr' = NoInstr
  /\ rec' = Fresh
  /\ pc' = "fresh"
  /\ UNCHANGED <<call, ret>>

Next ==
  \/ EncodeNoOp
  \/ EncodeLI
  \/ EncodeBR
  \/ EncodeALU
  \/ EncodeEND
  \/ EncodeRECV
  \/ EncodeSINC
  \/ EncodeSDEC
  \/ EncodeOther
  \/ Construct

Spec == Init /\ [][Next]_vars

(***************************************************************************)
(* The resolvers alone: each is called on every register, valid or not.    *)
(***************************************************************************)
ResRegs ==
  {MkReg(t, n) : t \in {"REG_A", "REG_B"}, n \in (-1)..NumRegs}
    \cup {MkReg("ACC", n) : n \in (-1)..(NumAccDest + 1)}
    \cup {MkReg("SPECIAL", n) : n \in SpecialIds}
    \cup {NoReg}

ResFiles == {"REG_A", "REG_B", "NONE"}

DestMap ==
  \E reg \in ResRegs :
    /\ call' = [fn |-> "dest", reg |-> reg, file |-> "NONE"]
    /\ ret' = encodeDestReg(reg)
    /\ UNCHANGED <<instr, rec, pc>>

SrcMap ==
  \E reg \in ResRegs, file \in ResFiles :
    /\ call' = [fn |-> "src", reg |-> reg, file |-> file]
    /\ ret' = encodeSrcReg(reg, file)
    /\ UNCHANGED <<instr, rec, pc>>

NextRes == DestMap \/ SrcMap

SpecRes == Init /\ [][NextRes]_vars

(***************************************************************************)
(* The tables of the resolvers, as the specification states them; the      *)
(* properties below are stated against these, not against the operators.   *)
(***************************************************************************)
InBank(reg) == reg.regId >= 0 /\ reg.regId < 32

\* The registers destination mapping has a row for.
CoveredDest(reg) ==
  \/ reg.tag \in {"REG_A", "REG_B"} /\ InBank(reg)
  \/ reg.tag = "ACC" /\ reg.regId \in 0..5
  \/ reg.tag = "SPECIAL" /\ reg.regId \in DestSpecials
  \/ reg.tag = "NONE"

\* The (register, bank) pairs source mapping has a row for.
CoveredSrc(reg, file) ==
  /\ file \in {"REG_A", "REG_B"}
  /\ \/ reg.tag = "REG_A" /\ InBank(reg) /\ file = "REG_A"
     \/ reg.tag = "REG_B" /\ InBank(reg) /\ file = "REG_B"
     \/ reg.tag = "ACC" /\ reg.regId \in 0..4
     \/ reg.tag = "NONE"
     \/ reg.tag = "SPECIAL" /\ reg.regId \in {SPECIAL_UNIFORM, SPECIAL_VPM_READ}
     \/ reg.tag = "SPECIAL" /\ reg.regId \in {SPECIAL_ELEM_NUM, SPECIAL_DMA_LD_WAIT}
          /\ file = "REG_A"
     \/ reg.tag = "SPECIAL" /\ reg.regId \in {SPECIAL_QPU_NUM, SPECIAL_DMA_ST_WAIT}
          /\ file = "REG_B"

\* The read address of a register.
ReadAddr(reg) ==
  CASE reg.tag \in {"REG_A", "REG_B"} -> reg.regId
    [] reg.tag = "ACC"  -> 0
    [] reg.tag = "NONE" -> 39
    [] reg.tag = "SPECIAL" /\ reg.regId = SPECIAL_UNIFORM -> 32
    [] reg.tag = "SPECIAL" /\ reg.regId \in {SPECIAL_ELEM_NUM, SPECIAL_QPU_NUM} -> 38
    [] reg.tag = "SPECIAL" /\ reg.regId = SPECIAL_VPM_READ -> 48
    [] reg.tag = "SPECIAL" /\ reg.regId \in {SPECIAL_DMA_LD_WAIT, SPECIAL_DMA_ST_WAIT} -> 50
    [] OTHER -> -1

\* The mux code of a register read through a bank: the accumulator's index,
\* else the code of the bank.
ReadMux(reg, file) ==
  IF reg.tag = "ACC" THEN reg.regId ELSE IF file = "REG_A" THEN 6 ELSE 7

Addr6 == 0..63

Mux3 == 0..7

(***************************************************************************)
(* C1: every register a resolver accepts gets fields that fit: destination *)
(* mapping accepts every register of its table and returns a write address *)
(* in [0,64) with bank A or B; source mapping accepts every (register,     *)
(* bank) of its table and returns a read address in [0,64) and a mux       *)
(* selector in [0,8).                                                      *)
(***************************************************************************)
C1_ResolverRanges ==
  /\ (call.fn = "dest" /\ CoveredDest(call.reg)) => ret.ok
  /\ (call.fn = "dest" /\ ret.ok) =>
        ret.addr \in Addr6 /\ ret.file \in {"REG_A", "REG_B"}
  /\ (call.fn = "src" /\ CoveredSrc(call.reg, call.file)) => ret.ok
  /\ (call.fn = "src" /\ ret.ok) => ret.addr \in Addr6 /\ ret.mux \in Mux3

\* Accumulator 4, the highest that can be read, was read through bank B.
C1_Witness ==
  /\ call = [fn |-> "src", reg |-> MkReg("ACC", 4), file |-> "REG_B"]
  /\ ret.ok

(***************************************************************************)
(* C2: every (tag, index, bank) triple the tables do not cover fails, in   *)
(* destination mapping and in source mapping, and returns no address.      *)
(***************************************************************************)
C2_UncoveredFails ==
  /\ (call.fn = "dest" /\ ~CoveredDest(call.reg)) => ~ret.ok
  /\ (call.fn = "src" /\ ~CoveredSrc(call.reg, call.file)) => ~ret.ok

(***************************************************************************)
(* C3: after an encode that returned, every packed field fits its width:   *)
(* the read addresses and the write addresses are in [0,64), the mux       *)
(* selectors in [0,8).                                                     *)
(***************************************************************************)
C3_FieldsFit ==
  pc = "done" =>
    /\ rec.m_raddra \in Addr6 /\ rec.m_raddrb \in Addr6
    /\ rec.m_muxa \in Mux3 /\ rec.m_muxb \in Mux3
    /\ rec.waddr_add \in Addr6 /\ rec.waddr_mul \in Addr6

(***************************************************************************)
(* C4: a rotate is encoded only with srcA accumulator 0 and srcB either    *)
(* accumulator 5 or a small immediate n, 1 <= n <= 15; anything else is    *)
(* rejected.  Accepted, the class is Rotate, the signal 13, and the read   *)
(* address B is 48 for accumulator 5 and 48 + n for the immediate n.       *)
(***************************************************************************)
IsRotate == instr.tag = "ALU" /\ isRot(instr.op) /\ pc # "fresh"

RotOperandsValid ==
  /\ instr.srcA = OpReg(MkReg("ACC", 0))
  /\ \/ instr.srcB = OpReg(MkReg("ACC", 5))
     \/ ~instr.srcB.isReg /\ instr.srcB.val >= 1 /\ instr.srcB.val <= 15

C4_RotateContract ==
  IsRotate =>
    /\ ~RotOperandsValid => pc = "failed"
    /\ pc = "done" =>
         /\ rec.m_tag = "ROT" /\ rec.m_sig = 13
         /\ rec.m_raddrb = IF instr.srcB.isReg THEN 48 ELSE 48 + instr.srcB.val

(***************************************************************************)
(* The non-rotate ALU instructions, by the kind of their operands.         *)
(***************************************************************************)
IsALU == instr.tag = "ALU" /\ ~isRot(instr.op) /\ pc # "fresh"

\* The destination has a write address: the encoder gets to the operands.
DestAccepted == CoveredDest(instr.dest) \/ instr.dest.tag = "SPECIAL"

SameReg == instr.srcA.reg.tag # "NONE" /\ instr.srcA.reg = instr.srcB.reg

TwoDistinctRegs == IsALU /\ instr.srcA.isReg /\ instr.srcB.isReg /\ ~SameReg

\* The bank a register lives in, where it has one.
FixedBank(reg) ==
  CASE reg.tag \in {"REG_A", "REG_B"} -> reg.tag
    [] reg.tag = "SPECIAL" /\ reg.regId \in {SPECIAL_ELEM_NUM, SPECIAL_DMA_LD_WAIT} -> "REG_A"
    [] reg.tag = "SPECIAL" /\ reg.regId \in {SPECIAL_QPU_NUM, SPECIAL_DMA_ST_WAIT} -> "REG_B"
    [] OTHER -> "NONE"

\* Some bank reads the register.
Readable(reg) == CoveredSrc(reg, "REG_A") \/ CoveredSrc(reg, "REG_B")

OtherBank(file) == IF file = "REG_A" THEN "REG_B" ELSE "REG_A"

PortAddr(file) == IF file = "REG_A" THEN rec.m_raddra ELSE rec.m_raddrb

\* srcA is read through port pa and srcB through the other port.
ReadThrough(pa) ==
  /\ PortAddr(pa) = ReadAddr(instr.srcA.reg)
  /\ PortAddr(OtherBank(pa)) = ReadAddr(instr.srcB.reg)
  /\ rec.m_muxa = ReadMux(instr.srcA.reg, pa)
  /\ rec.m_muxb = ReadMux(instr.srcB.reg, OtherBank(pa))
  /\ FixedBank(instr.srcA.reg) \in {"NONE", pa}
  /\ FixedBank(instr.srcB.reg) \in {"NONE", OtherBank(pa)}

(***************************************************************************)
(* C5: two distinct register operands of a non-rotate ALU instruction:     *)
(* the encoding fails when both have a fixed bank and the banks are equal; *)
(* two readable operands that do not collide are encoded, through          *)
(* different ports: an operand of bank A on port A, an operand of bank B   *)
(* on port B, an operand with no fixed bank on the port the other leaves,  *)
(* and muxA, muxB carry the mux codes of srcA, srcB.  add(A3, B5) into A3  *)
(* gives read addresses 3 and 5, mux 6 and 7, write-address-add 3.         *)
(***************************************************************************)
C5_DistinctRegisters ==
  /\ TwoDistinctRegs =>
       /\ (/\ FixedBank(instr.srcA.reg) # "NONE"
           /\ FixedBank(instr.srcA.reg) = FixedBank(instr.srcB.reg)) => pc = "failed"
       /\ (/\ DestAccepted /\ Readable(instr.srcA.reg) /\ Readable(instr.srcB.reg)
           /\ \/ FixedBank(instr.srcA.reg) = "NONE"
              \/ FixedBank(instr.srcA.reg) # FixedBank(instr.srcB.reg)) => pc = "done"
       /\ pc = "done" => ReadThrough("REG_A") \/ ReadThrough("REG_B")
  /\ (/\ IsALU /\ instr.op = "A_ADD" /\ instr.dest = MkReg("REG_A", 3)
      /\ instr.srcA = OpReg(MkReg("REG_A", 3)) /\ instr.srcB = OpReg(MkReg("REG_B", 5))) =>
       /\ pc = "done"
       /\ rec.m_raddra = 3 /\ rec.m_raddrb = 5 /\ rec.m_muxa = 6 /\ rec.m_muxb = 7
       /\ rec.waddr_add = 3

\* An accumulator and a register of bank B: the pairing that follows srcB.
C5_Witness ==
  /\ TwoDistinctRegs /\ pc = "done"
  /\ instr.srcA = OpReg(MkReg("ACC", 1)) /\ instr.srcB = OpReg(MkReg("REG_B", 5))
  /\ rec.m_raddrb = 5 /\ rec.m_muxa = 1

(***************************************************************************)
(* C6: the same register of bank A or B (index 0..31) as both operands of  *)
(* a non-rotate ALU instruction: the read address of its bank is its       *)
(* index, the read address of the other bank is 39, and muxA = muxB (6 for *)
(* bank A, 7 for bank B).                                                  *)
(***************************************************************************)
SameBankReg ==
  /\ IsALU /\ instr.srcA.isReg /\ instr.srcB.isReg /\ instr.srcA = instr.srcB
  /\ instr.srcA.reg.tag \in {"REG_A", "REG_B"} /\ InBank(instr.srcA.reg)

C6_SameRegister ==
  SameBankReg =>
    /\ DestAccepted => pc = "done"
    /\ pc = "done" =>
         /\ PortAddr(instr.srcA.reg.tag) = instr.srcA.reg.regId
         /\ PortAddr(OtherBank(instr.srcA.reg.tag)) = 39
         /\ rec.m_muxa = rec.m_muxb
         /\ rec.m_muxa = IF instr.srcA.reg.tag = "REG_A" THEN 6 ELSE 7

C6_Witness ==
  /\ SameBankReg /\ pc = "done"
  /\ instr.srcA.reg = MkReg("REG_B", 5) /\ rec.m_raddra = 39 /\ rec.m_raddrb = 5

(***************************************************************************)
(* C7: two immediates of a non-rotate ALU instruction: equal values k give *)
(* read-address-B = k and muxA = muxB = 7; different values fail, and none *)
(* of the four operand fields is written.                                  *)
(***************************************************************************)
TwoImms == IsALU /\ ~instr.srcA.isReg /\ ~instr.srcB.isReg

C7_ImmediatePair ==
  TwoImms =>
    /\ (instr.srcA.val = instr.srcB.val /\ DestAccepted) => pc = "done"
    /\ pc = "done" =>
         /\ instr.srcA.val = instr.srcB.val
         /\ rec.m_raddrb = instr.srcA.val /\ rec.m_muxa = 7 /\ rec.m_muxb = 7
    /\ instr.srcA.val # instr.srcB.val =>
         /\ pc = "failed"
         /\ rec.m_raddra = Fresh.m_raddra /\ rec.m_raddrb = Fresh.m_raddrb
         /\ rec.m_muxa = Fresh.m_muxa /\ rec.m_muxb = Fresh.m_muxb

C7_Witness ==
  /\ TwoImms /\ pc = "failed" /\ DestAccepted
  /\ instr.srcA.val = 15 /\ instr.srcB.val = 16

(***************************************************************************)
(* C8: a register and an immediate k as the operands of a non-rotate ALU   *)
(* instruction, in either order: a register bank A reads is encoded, with  *)
(* read-address-A the register's address and read-address-B = k, and the   *)
(* instruction with its operands swapped gives the same record but for     *)
(* muxA and muxB, which hold the register's mux and 7 the other way round; *)
(* a register only bank B reads fails in both orders.                      *)
(***************************************************************************)
RegAndImm == IsALU /\ instr.srcA.isReg # instr.srcB.isReg

MixedReg == IF instr.srcA.isReg THEN instr.srcA.reg ELSE instr.srcB.reg

MixedImm == IF instr.srcA.isReg THEN instr.srcB.val ELSE instr.srcA.val

Swapped == encode(Fresh, [instr EXCEPT !.srcA = instr.srcB, !.srcB = instr.srcA])

C8_RegisterAndImmediate ==
  RegAndImm =>
    /\ (CoveredSrc(MixedReg, "REG_A") /\ DestAccepted) => pc = "done"
    /\ ~CoveredSrc(MixedReg, "REG_A") => pc = "failed"
    /\ Swapped.ok <=> pc = "done"
    /\ pc = "done" =>
         /\ rec.m_raddra = ReadAddr(MixedReg) /\ rec.m_raddrb = MixedImm
         /\ rec.m_muxa = IF instr.srcA.isReg THEN ReadMux(MixedReg, "REG_A") ELSE 7
         /\ rec.m_muxb = IF instr.srcB.isReg THEN ReadMux(MixedReg, "REG_A") ELSE 7
         /\ Swapped.rec = [rec EXCEPT !.m_muxa = rec.m_muxb, !.m_muxb = rec.m_muxa]

\* The immediate came first, and the register reads through bank A alone.
C8_Witness ==
  /\ RegAndImm /\ pc = "done"
  /\ instr.srcA = OpImm(15) /\ instr.srcB = OpReg(MkReg("SPECIAL", SPECIAL_ELEM_NUM))
  /\ rec.m_raddra = 38 /\ rec.m_raddrb = 15 /\ rec.m_muxa = 7 /\ rec.m_muxb = 6

(***************************************************************************)
(* C9: a Receive whose destination is not accumulator 4 fails with the     *)
(* record as constructed, no field written; into accumulator 4 the record  *)
(* becomes the Receive class with signal 10 and read-address-B 39.         *)
(***************************************************************************)
IsReceive == instr.tag = "RECV" /\ pc # "fresh"

C9_Receive ==
  IsReceive =>
    IF instr.dest = MkReg("ACC", 4)
      THEN /\ pc = "done"
           /\ rec.m_tag = "LDTMU" /\ rec.m_sig = 10 /\ rec.m_raddrb = 39
      ELSE pc = "failed" /\ rec = Fresh

C9_Witness == IsReceive /\ instr.dest = MkReg("ACC", 5) /\ pc = "failed"

(***************************************************************************)
(* C10: an ALU instruction whose destination resolves writes the           *)
(* condition, the write address and write-swap of one pipe: an add         *)
(* operation sets cond_add and waddr_add, leaves cond_mul and waddr_mul,   *)
(* and sets write-swap iff the bank is not A; a mul operation sets         *)
(* cond_mul and waddr_mul, leaves cond_add and waddr_add, and sets         *)
(* write-swap iff the bank is not B.  Accumulator 5 is written at address  *)
(* 37 through bank B: write-swap is 1 for an add and 0 for a mul.          *)
(***************************************************************************)
IsAnyALU == instr.tag = "ALU" /\ pc # "fresh"

\* The bank of a destination: the one it names, B for accumulator 5 and the
\* write setups of bank B, else A.
DestBank ==
  CASE instr.dest.tag \in {"REG_A", "REG_B"} -> instr.dest.tag
    [] instr.dest = MkReg("ACC", 5) -> "REG_B"
    [] instr.dest.tag = "SPECIAL"
         /\ instr.dest.regId \in {SPECIAL_WR_SETUP, SPECIAL_DMA_ST_ADDR} -> "REG_B"
    [] OTHER -> "REG_A"

C10_DestinationRouting ==
  (IsAnyALU /\ DestAccepted) =>
    /\ ~isMul(instr.op) =>
         /\ rec.cond_add = instr.cond /\ rec.waddr_add \in Addr6
         /\ rec.cond_mul = Fresh.cond_mul /\ rec.waddr_mul = Fresh.waddr_mul
         /\ rec.m_ws = (DestBank # "REG_A")
    /\ isMul(instr.op) =>
         /\ rec.cond_mul = instr.cond /\ rec.waddr_mul \in Addr6
         /\ rec.cond_add = Fresh.cond_add /\ rec.waddr_add = Fresh.waddr_add
         /\ rec.m_ws = (DestBank # "REG_B")
    /\ instr.dest.tag \in {"REG_A", "REG_B"} =>
         instr.dest.regId = IF isMul(instr.op) THEN rec.waddr_mul ELSE rec.waddr_add
    /\ instr.dest = MkReg("ACC", 5) =>
         /\ 37 = IF isMul(instr.op) THEN rec.waddr_mul ELSE rec.waddr_add
         /\ rec.m_ws = ~isMul(instr.op)

C10_Witness ==
  /\ IsAnyALU /\ pc = "done" /\ instr.dest = MkReg("ACC", 5)
  /\ instr.op = "M_MUL24" /\ rec.waddr_mul = 37 /\ ~rec.m_ws /\ rec.cond_mul = 2

=============================================================================
